---- MODULE Spec2Model ----
(***************************************************************************)
(* Model of api_coverage.py: the ignore rules (StatusIgnore), the HAR and  *)
(* JUnit loaders, the verdict reconciliation and the summary loop of       *)
(* main(), and classify_endpoint.                                          *)
(*                                                                         *)
(* Python strings are modelled as sequences of one-character strings, so   *)
(* that strip, split, startswith, int() and str() are computed and not     *)
(* assumed.                                                                *)
(***************************************************************************)
EXTENDS Integers, Sequences, FiniteSets, TLC

VARIABLES
    pc,                \* position in the run being modelled
    pos,               \* index of the next element of the list being looped over
    ignore_patterns,   \* main: the list of ignore tokens
    ignore,            \* the StatusIgnore object: [codes, prefixes]
    query,             \* last is_ignored call: [status, answer]
    junit,             \* the message attribute of every <failure> element
    failing_ids,       \* load_failing_test_ids: failing_ids
    har,               \* har["log"]["entries"], reduced to the fields read
    seen_statuses,     \* load_har: seen_statuses
    case_to_triplet,   \* load_har: case_to_triplet
    failing_statuses,  \* main: failing_statuses
    passing_statuses,  \* main: passing_statuses
    documented,        \* load_openapi result: endpoint -> set of codes
    todo,              \* main: endpoints of sorted(documented.items()) left
    endpoint_reports,  \* main: endpoint_reports
    summary,           \* main: total_doc, total_pass, ... as one record
    cls_args,          \* arguments of a direct classify_endpoint call
    cls_result         \* its return value

vars == <<pc, pos, ignore_patterns, ignore, query, junit, failing_ids, har,
          seen_statuses, case_to_triplet, failing_statuses, passing_statuses,
          documented, todo, endpoint_reports, summary, cls_args, cls_result>>

-----------------------------------------------------------------------------
(* Bounds *)

MaxPatterns == 2
MaxFailures == 2
MaxIndex == 3
MaxEntries == 3

-----------------------------------------------------------------------------
(* Python string primitives *)

DigitChars == <<"0", "1", "2", "3", "4", "5", "6", "7", "8", "9">>

IsDigit(ch) == \E i \in 1..10 : DigitChars[i] = ch

DigitVal(ch) == (CHOOSE i \in 1..10 : DigitChars[i] = ch) - 1

IsSpace(ch) == ch \in {" ", "\t", "\n", "\r"}

RECURSIVE NatToStr(_)
NatToStr(n) ==
    IF n < 10 THEN <<DigitChars[n + 1]>>
    ELSE NatToStr(n \div 10) \o <<DigitChars[(n % 10) + 1]>>

\* str(status) for an int
IntToStr(n) == IF n < 0 THEN <<"-">> \o NatToStr(0 - n) ELSE NatToStr(n)

RECURSIVE LStrip(_)
LStrip(s) == IF s # <<>> /\ IsSpace(Head(s)) THEN LStrip(Tail(s)) ELSE s

RECURSIVE RStrip(_)
RStrip(s) ==
    IF s # <<>> /\ IsSpace(s[Len(s)]) THEN RStrip(SubSeq(s, 1, Len(s) - 1))
    ELSE s

\* str.strip()
Strip(s) == RStrip(LStrip(s))

\* str.startswith(p)
StartsWith(s, p) == Len(s) >= Len(p) /\ SubSeq(s, 1, Len(p)) = p

\* sub in s
Contains(s, sub) ==
    \E i \in 1..(Len(s) - Len(sub) + 1) : SubSeq(s, i, i + Len(sub) - 1) = sub

\* str.replace(old, new) for single characters
ReplaceChar(s, old, new) == [i \in 1..Len(s) |-> IF s[i] = old THEN new ELSE s[i]]

\* str.split(): the maximal runs of non-whitespace characters, in order
RECURSIVE SplitWs(_, _)
SplitWs(s, cur) ==
    IF s = <<>> THEN (IF cur = <<>> THEN <<>> ELSE <<cur>>)
    ELSE IF IsSpace(Head(s))
         THEN (IF cur = <<>> THEN <<>> ELSE <<cur>>) \o SplitWs(Tail(s), <<>>)
         ELSE SplitWs(Tail(s), Append(cur, Head(s)))

\* str.split(sep, 1): cut at the first occurrence of sep
SplitOnce(s, sep) ==
    IF Contains(s, sep)
    THEN LET i == CHOOSE k \in 1..(Len(s) - Len(sep) + 1) :
                      /\ SubSeq(s, k, k + Len(sep) - 1) = sep
                      /\ \A j \in 1..(k - 1) : SubSeq(s, j, j + Len(sep) - 1) # sep
         IN  <<SubSeq(s, 1, i - 1), SubSeq(s, i + Len(sep), Len(s))>>
    ELSE <<s>>

\* str.splitlines() for "\n" line ends
RECURSIVE SplitLines(_, _)
SplitLines(s, cur) ==
    IF s = <<>> THEN (IF cur = <<>> THEN <<>> ELSE <<cur>>)
    ELSE IF Head(s) = "\n"
         THEN <<cur>> \o SplitLines(Tail(s), <<>>)
         ELSE SplitLines(Tail(s), Append(cur, Head(s)))

\* The syntax int(token) accepts: an optional sign, then digits, single
\* underscores allowed between digits, whitespace allowed around the whole.
IntBody(t) ==
    LET u == Strip(t)
    IN  IF u # <<>> /\ Head(u) \in {"-", "+"} THEN Tail(u) ELSE u

IsIntLiteral(t) ==
    LET b == IntBody(t)
    IN  /\ b # <<>>
        /\ \A i \in 1..Len(b) : IsDigit(b[i]) \/ b[i] = "_"
        /\ IsDigit(b[1]) /\ IsDigit(b[Len(b)])
        /\ \A i \in 1..(Len(b) - 1) : ~(b[i] = "_" /\ b[i + 1] = "_")

RECURSIVE DigitsValue(_, _)
DigitsValue(b, acc) ==
    IF b = <<>> THEN acc
    ELSE IF Head(b) = "_" THEN DigitsValue(Tail(b), acc)
         ELSE DigitsValue(Tail(b), 10 * acc + DigitVal(Head(b)))

\* int(token), where IsIntLiteral(token)
ParseInt(t) ==
    LET u == Strip(t)
        v == DigitsValue(IntBody(t), 0)
    IN  IF Head(u) = "-" THEN 0 - v ELSE v

-----------------------------------------------------------------------------
(* class StatusIgnore *)

\* StatusIgnore._add_token
AddToken(ig, token) ==
    IF IsIntLiteral(token)
    THEN [ig EXCEPT !.codes = @ \cup {ParseInt(token)}]
    ELSE IF Len(token) = 3 /\ IsDigit(token[1]) /\ SubSeq(token, 2, 3) = <<"X", "X">>
         THEN [ig EXCEPT !.prefixes = @ \cup {token[1]}]
         ELSE ig

RECURSIVE AddTokens(_, _)
AddTokens(ig, parts) ==
    IF parts = <<>> THEN ig
    ELSE AddTokens(AddToken(ig, Head(parts)), Tail(parts))

\* One iteration of the loop of StatusIgnore.__init__
AddPattern(ig, pattern) ==
    LET token == Strip(pattern)
    IN  IF token = <<>> THEN ig
        ELSE IF Contains(token, <<",">>) \/ Contains(token, <<" ">>)
             THEN AddTokens(ig, SplitWs(ReplaceChar(token, ",", " "), <<>>))
             ELSE AddToken(ig, token)

RECURSIVE AddPatterns(_, _)
AddPatterns(ig, pats) ==
    IF pats = <<>> THEN ig
    ELSE AddPatterns(AddPattern(ig, Head(pats)), Tail(pats))

\* StatusIgnore.__init__
StatusIgnore(pats) == AddPatterns([codes |-> {}, prefixes |-> {}], pats)

\* A slip in is_ignored: the length test of the rendered status is dropped.
is_ignored_NoLen(ig, status) ==
    \/ status \in ig.codes
    \/ IntToStr(status)[1] \in ig.prefixes

\* StatusIgnore.is_ignored
is_ignored(ig, status) ==
    IF status \in ig.codes THEN TRUE
    ELSE LET s == IntToStr(status)
         IN  IF Len(s) = 3 /\ s[1] \in ig.prefixes THEN TRUE ELSE FALSE

-----------------------------------------------------------------------------
(* load_failing_test_ids *)

TestCaseIdTag == <<"T", "e", "s", "t", " ", "C", "a", "s", "e", " ", "I", "D", ":">>

\* The body shared by both branches: split at the tag, strip, keep if non-empty
AddCaseId(ids, line) ==
    LET parts == SplitOnce(line, TestCaseIdTag)
    IN  IF Len(parts) = 2
        THEN LET case_id == Strip(parts[2])
             IN  IF case_id # <<>> THEN ids \cup {case_id} ELSE ids
        ELSE ids

\* One iteration of `for line in msg.splitlines()`
ScanLine(ids, raw) ==
    LET line == Strip(raw)
    IN  IF \/ StartsWith(line, <<"1", ".", " ">> \o TestCaseIdTag)
           \/ StartsWith(line, <<"2", ".", " ">> \o TestCaseIdTag)
        THEN AddCaseId(ids, line)
        ELSE IF StartsWith(line, TestCaseIdTag)
             THEN AddCaseId(ids, line)
             ELSE ids

RECURSIVE ScanLines(_, _)
ScanLines(ids, lines) ==
    IF lines = <<>> THEN ids
    ELSE ScanLines(ScanLine(ids, Head(lines)), Tail(lines))

\* One iteration of `for failure in root.iter("failure")`
ScanFailure(ids, msg) == ScanLines(ids, SplitLines(msg, <<>>))

RECURSIVE ScanFailures(_, _)
ScanFailures(ids, msgs) ==
    IF msgs = <<>> THEN ids
    ELSE ScanFailures(ScanFailure(ids, Head(msgs)), Tail(msgs))

load_failing_test_ids(msgs) == ScanFailures({}, msgs)

-----------------------------------------------------------------------------
(* load_har *)

\* The endpoints (method, path) that occur, numbered in sorted order
Endpoints == {1, 2}

EmptyMap == [e \in Endpoints |-> {}]

\* `if test_case_id:` - None and the empty string are both no id; both are <<>>
HasCaseId(entry) == entry.id # <<>>

\* One iteration of `for entry in har["log"]["entries"]`
HarEntry(st, entry) ==
    [seen |-> [st.seen EXCEPT ![entry.ep] = @ \cup {entry.status}],
     triplet |-> IF HasCaseId(entry)
                 THEN [i \in DOMAIN st.triplet \cup {entry.id} |->
                          IF i = entry.id
                          THEN [ep |-> entry.ep, status |-> entry.status]
                          ELSE st.triplet[i]]
                 ELSE st.triplet]

RECURSIVE HarEntries(_, _)
HarEntries(st, entries) ==
    IF entries = <<>> THEN st
    ELSE HarEntries(HarEntry(st, Head(entries)), Tail(entries))

\* load_har: returns seen_statuses and case_to_triplet
load_har(entries) == HarEntries([seen |-> EmptyMap, triplet |-> <<>>], entries)

-----------------------------------------------------------------------------
(* main: reconciliation of verdicts with traffic *)

\* `for case_id, (method, path, status) in case_to_triplet.items()`
FailingOf(triplet, fids) ==
    [e \in Endpoints |->
        {triplet[i].status : i \in {j \in DOMAIN triplet :
                                      j \in fids /\ triplet[j].ep = e}}]

PassingOf(triplet, fids) ==
    [e \in Endpoints |->
        {triplet[i].status : i \in {j \in DOMAIN triplet :
                                      j \notin fids /\ triplet[j].ep = e}}]

\* A slip in the fallback loop: a status is assumed passing only when the
\* endpoint has no verdict at all.
Fallback_OnlyUnjudged(seen, failing, passing) ==
    [e \in Endpoints |->
        IF failing[e] = {} /\ passing[e] = {} THEN seen[e] ELSE passing[e]]

\* `for (method, path), statuses in seen_statuses.items()`
Fallback(seen, failing, passing) ==
    [e \in Endpoints |->
        passing[e] \cup {s \in seen[e] : s \notin failing[e] /\ s \notin passing[e]}]

\* The three steps together, as a function of the inputs
Reconcile(entries, fids) ==
    LET h == load_har(entries)
        f == FailingOf(h.triplet, fids)
        p == PassingOf(h.triplet, fids)
    IN  [failing |-> f, passing |-> Fallback(h.seen, f, p)]

-----------------------------------------------------------------------------
(* classify_endpoint *)

NonignoredDocs(ig, documented_codes) ==
    {c \in documented_codes : ~is_ignored(ig, c)}

\* A slip in the first loop: the passing test is not under an `elif`.
CoveredPassing_NoElif(nonignored_docs, passing, failing) ==
    {c \in nonignored_docs : c \in passing}

\* `for code in nonignored_docs`: the elif branch
CoveredPassing(nonignored_docs, passing, failing) ==
    {c \in nonignored_docs : c \notin failing /\ c \in passing}

\* `for code in nonignored_docs`: the if branch
CoveredFailing(nonignored_docs, passing, failing) ==
    {c \in nonignored_docs : c \in failing}

\* A slip in the first loop: the else branch forgets the failing test.
Untested_NotPassing(nonignored_docs, passing, failing) ==
    {c \in nonignored_docs : c \notin passing}

\* `for code in nonignored_docs`: the else branch
Untested(nonignored_docs, passing, failing) ==
    {c \in nonignored_docs : c \notin failing /\ c \notin passing}

\* A slip in the signals: undocumented statuses are not a failure signal.
HasAnyFailing_NoExtra(covered_failing, ignored_failing, extra_statuses) ==
    covered_failing # {} \/ ignored_failing # {}

HasAnyFailing(covered_failing, ignored_failing, extra_statuses) ==
    covered_failing # {} \/ ignored_failing # {} \/ extra_statuses # {}

\* A change of the green test: an endpoint whose documented codes are all
\* ignored is no longer green.
FullyCovered_NonEmpty(covered_passing, nonignored_docs) ==
    nonignored_docs # {} /\ Cardinality(covered_passing) = Cardinality(nonignored_docs)

\* `len(covered_passing) == len(nonignored_docs)`
FullyCovered(covered_passing, nonignored_docs) ==
    Cardinality(covered_passing) = Cardinality(nonignored_docs)

classify_endpoint(endpoint, documented_codes, seen, passing, failing, ig) ==
    LET nonignored_docs == NonignoredDocs(ig, documented_codes)
        ignored_docs == documented_codes \ nonignored_docs
        extra_statuses == seen \ documented_codes
        covered_passing == CoveredPassing(nonignored_docs, passing, failing)
        covered_failing == CoveredFailing(nonignored_docs, passing, failing)
        untested == Untested(nonignored_docs, passing, failing)
        ignored_passing == {c \in ignored_docs : c \in passing /\ c \notin failing}
        ignored_failing == {c \in ignored_docs : c \in failing}
        extra_ignored == {c \in extra_statuses : is_ignored(ig, c)}
        extra_nonignored == extra_statuses \ extra_ignored
        has_any_coverage ==
            \/ covered_passing # {}
            \/ covered_failing # {}
            \/ ignored_passing # {}
            \/ ignored_failing # {}
            \/ extra_statuses # {}
        has_any_passing == covered_passing # {} \/ ignored_passing # {}
        has_any_failing == HasAnyFailing(covered_failing, ignored_failing, extra_statuses)
        color ==
            IF ~has_any_coverage THEN "grey"
            ELSE IF has_any_failing
                 THEN (IF has_any_passing THEN "yellow" ELSE "red")
                 ELSE (IF FullyCovered(covered_passing, nonignored_docs)
                       THEN "green" ELSE "yellow")
    IN  [endpoint |-> endpoint,
         documented |-> documented_codes,
         nonignored_docs |-> nonignored_docs,
         ignored_docs |-> ignored_docs,
         seen |-> seen,
         passing |-> passing,
         failing |-> failing,
         covered_passing |-> covered_passing,
         covered_failing |-> covered_failing,
         untested |-> untested,
         ignored_passing |-> ignored_passing,
         ignored_failing |-> ignored_failing,
         extra_nonignored |-> extra_nonignored,
         extra_ignored |-> extra_ignored,
         color |-> color]

-----------------------------------------------------------------------------
(* main: the summary *)

ZeroSummary ==
    [total_doc |-> 0, total_pass |-> 0, total_fail |-> 0,
     total_untested |-> 0, extra_total |-> 0]

\* A slip in the summary: every passing status is counted, documented or not.
UpdateSummary_AllPassing(sm, ep) ==
    [total_doc |-> sm.total_doc + Cardinality(ep.nonignored_docs),
     total_pass |-> sm.total_pass + Cardinality(ep.passing),
     total_fail |-> sm.total_fail + Cardinality(ep.covered_failing),
     total_untested |-> sm.total_untested + Cardinality(ep.untested),
     extra_total |-> sm.extra_total + Cardinality(ep.extra_nonignored)
                                    + Cardinality(ep.extra_ignored)]

\* "Update summary (only non-ignored documented codes)"
UpdateSummary(sm, ep) ==
    [total_doc |-> sm.total_doc + Cardinality(ep.nonignored_docs),
     total_pass |-> sm.total_pass + Cardinality(ep.covered_passing),
     total_fail |-> sm.total_fail + Cardinality(ep.covered_failing),
     total_untested |-> sm.total_untested + Cardinality(ep.untested),
     extra_total |-> sm.extra_total + Cardinality(ep.extra_nonignored)
                                    + Cardinality(ep.extra_ignored)]

-----------------------------------------------------------------------------
(* Inputs *)

SeqsUpTo(S, n) == UNION {[1..k -> S] : k \in 0..n}

\* --ignore-status tokens: the default pair, lists, and malformed tokens
Tok429 == <<"4", "2", "9">>
Tok5XX == <<"5", "X", "X">>
TokLower == <<"5", "x", "x">>
TokIsh == <<"4", "X", "X", "-", "i", "s", "h">>

IgnoreTokens ==
    {Tok429, Tok5XX, TokLower, TokIsh,
     <<"4", "X", "X">>,
     <<>>,
     <<" ", "1", "X", "X", " ">>,
     <<"4", "0", "4", ",", "2", "X", "X">>,
     <<"5", "0", " ", " ", "5", "x", "x">>,
     <<"-", "1", "2">>,
     <<"5", "_", "0", "0">>,
     <<"5", "X">>,
     <<"X", "X", "5">>,
     <<"5", "0", "0", "0">>}

\* `ignore_patterns = ["429", "5XX"]`
DefaultIgnore == <<Tok429, Tok5XX>>

QueryCodes ==
    {-500, -100, -50, -12, -5, 0, 4, 5, 12, 50, 99, 100, 150, 199, 200, 250,
     399, 400, 404, 429, 430, 499, 500, 501, 599, 600, 999, 1000, 4290, 5000}

\* A failure-report line; index 0 stands for a line without the index prefix
JunitLine(index, id) ==
    (IF index = 0 THEN <<>> ELSE NatToStr(index) \o <<".", " ">>)
        \o TestCaseIdTag \o <<" ">> \o id

IdA == <<"a">>
IdB == <<"b">>

JunitIds == {<<>>, IdA}

NoiseLine == <<"E", "r", "r">>

JunitLines ==
    {JunitLine(k, id) : k \in 0..MaxIndex, id \in JunitIds} \cup {NoiseLine}

JunitMessages ==
    JunitLines
    \cup {<<" ", " ">> \o l \o <<" ">> : l \in JunitLines}
    \cup {f \o <<"\n">> \o l : f \in {NoiseLine, JunitLine(1, IdB)}, l \in JunitLines}

\* Failure reports of a whole run
MainJunits ==
    {<<>>,
     <<JunitLine(1, IdA)>>,
     <<JunitLine(0, IdB)>>,
     <<JunitLine(1, IdA) \o <<"\n">> \o JunitLine(2, IdB)>>}

HarStatuses == {200, 500}

HarEntryValues == [ep : Endpoints, status : HarStatuses, id : {<<>>, IdA, IdB}]

\* Contracts: documented codes of the endpoints listed in the OpenAPI file
Doc1 == [e \in {1, 2} |-> IF e = 1 THEN {200, 500} ELSE {500}]
Doc2 == [e \in {1} |-> {200}]
Doc3 == [e \in {1, 2} |-> IF e = 1 THEN {200, 404} ELSE {200}]

MainDocs == {Doc1, Doc2, Doc3}

ClassifyCodes == {200, 418, 429, 500}

ClassifyIgnores == {DefaultIgnore, <<>>, <<Tok429>>}

RECURSIVE SortedSeq(_)
SortedSeq(S) ==
    IF S = {} THEN <<>>
    ELSE LET m == CHOOSE x \in S : \A y \in S : x <= y
         IN  <<m>> \o SortedSeq(S \ {m})

NoQuery == [status |-> 0, answer |-> FALSE]
NoIgnore == [codes |-> {}, prefixes |-> {}]
NoArgs == [documented |-> {}, seen |-> {}, passing |-> {}, failing |-> {}]
NoResult == [color |-> "none"]

IdleIgnore == ignore_patterns = <<>> /\ ignore = NoIgnore /\ query = NoQuery
IdleJunit == junit = <<>> /\ failing_ids = {} /\ pos = 1
IdleMain ==
    /\ har = <<>> /\ seen_statuses = EmptyMap /\ case_to_triplet = <<>>
    /\ failing_statuses = EmptyMap /\ passing_statuses = EmptyMap
    /\ documented = <<>> /\ todo = <<>> /\ endpoint_reports = <<>>
    /\ summary = ZeroSummary
IdleClassify == cls_args = NoArgs /\ cls_result = NoResult

ignoreVars == <<ignore_patterns, ignore, query>>
junitVars == <<junit, failing_ids, pos>>
mainVars == <<har, seen_statuses, case_to_triplet, failing_statuses,
              passing_statuses, documented, todo, endpoint_reports, summary>>
classifyVars == <<cls_args, cls_result>>

-----------------------------------------------------------------------------
(* StatusIgnore built from a token list, then asked about one status *)

InitIgnore ==
    /\ pc = "ignore_start"
    /\ ignore_patterns \in SeqsUpTo(IgnoreTokens, MaxPatterns)
    /\ ignore = NoIgnore
    /\ query = NoQuery
    /\ IdleJunit /\ IdleMain /\ IdleClassify

BuildIgnore ==
    /\ pc = "ignore_start"
    /\ ignore' = StatusIgnore(ignore_patterns)
    /\ pc' = "ignore_built"
    /\ UNCHANGED <<ignore_patterns, query, junitVars, mainVars, classifyVars>>

QueryIgnored(status) ==
    /\ pc = "ignore_built"
    /\ query' = [status |-> status, answer |-> is_ignored(ignore, status)]
    /\ pc' = "ignore_queried"
    /\ UNCHANGED <<ignore_patterns, ignore, junitVars, mainVars, classifyVars>>

NextIgnore == BuildIgnore \/ \E status \in QueryCodes : QueryIgnored(status)

SpecIgnore == InitIgnore /\ [][NextIgnore]_vars

-----------------------------------------------------------------------------
(* load_failing_test_ids over the failures of a JUnit file *)

InitJunit ==
    /\ pc = "junit_scan"
    /\ junit \in SeqsUpTo(JunitMessages, MaxFailures)
    /\ failing_ids = {}
    /\ pos = 1
    /\ IdleIgnore /\ IdleMain /\ IdleClassify

ScanNextFailure ==
    /\ pc = "junit_scan"
    /\ pos <= Len(junit)
    /\ failing_ids' = ScanFailure(failing_ids, junit[pos])
    /\ pos' = pos + 1
    /\ UNCHANGED <<pc, junit, ignoreVars, mainVars, classifyVars>>

ReturnFailingIds ==
    /\ pc = "junit_scan"
    /\ pos > Len(junit)
    /\ pc' = "junit_done"
    /\ UNCHANGED <<junit, failing_ids, pos, ignoreVars, mainVars, classifyVars>>

NextJunit == ScanNextFailure \/ ReturnFailingIds

SpecJunit == InitJunit /\ [][NextJunit]_vars

-----------------------------------------------------------------------------
(* classify_endpoint called on arbitrary sets *)

InitClassify ==
    /\ pc = "classify_start"
    /\ ignore_patterns \in ClassifyIgnores
    /\ ignore = StatusIgnore(ignore_patterns)
    /\ query = NoQuery
    /\ cls_args \in [documented : SUBSET ClassifyCodes, seen : SUBSET ClassifyCodes,
                     passing : SUBSET ClassifyCodes, failing : SUBSET ClassifyCodes]
    /\ cls_result = NoResult
    /\ IdleJunit /\ IdleMain

ClassifyCall ==
    /\ pc = "classify_start"
    /\ cls_result' = classify_endpoint(1, cls_args.documented, cls_args.seen,
                                       cls_args.passing, cls_args.failing, ignore)
    /\ pc' = "classified"
    /\ UNCHANGED <<cls_args, ignoreVars, junitVars, mainVars>>

NextClassify == ClassifyCall

SpecClassify == InitClassify /\ [][NextClassify]_vars

-----------------------------------------------------------------------------
(* main *)

InitMain ==
    /\ pc = "main_start"
    /\ ignore_patterns = DefaultIgnore
    /\ ignore = NoIgnore
    /\ query = NoQuery
    /\ junit \in MainJunits
    /\ failing_ids = {}
    /\ pos = 1
    /\ har \in SeqsUpTo(HarEntryValues, MaxEntries)
    /\ documented \in MainDocs
    /\ seen_statuses = EmptyMap /\ case_to_triplet = <<>>
    /\ failing_statuses = EmptyMap /\ passing_statuses = EmptyMap
    /\ todo = <<>> /\ endpoint_reports = <<>>
    /\ summary = ZeroSummary
    /\ IdleClassify

\* Lines 340-349: the ignore rules and the three loaders
MainLoad ==
    /\ pc = "main_start"
    /\ ignore' = StatusIgnore(ignore_patterns)
    /\ LET h == load_har(har)
       IN  seen_statuses' = h.seen /\ case_to_triplet' = h.triplet
    /\ failing_ids' = load_failing_test_ids(junit)
    /\ pc' = "verdicts"
    /\ UNCHANGED <<pos, ignore_patterns, query, junit, har, failing_statuses,
                   passing_statuses, documented, todo, endpoint_reports,
                   summary, classifyVars>>

\* Lines 352-359
MainVerdicts ==
    /\ pc = "verdicts"
    /\ failing_statuses' = FailingOf(case_to_triplet, failing_ids)
    /\ passing_statuses' = PassingOf(case_to_triplet, failing_ids)
    /\ pc' = "fallback"
    /\ UNCHANGED <<pos, ignoreVars, junit, failing_ids, har, seen_statuses,
                   case_to_triplet, documented, todo, endpoint_reports,
                   summary, classifyVars>>

\* Lines 361-378
MainFallback ==
    /\ pc = "fallback"
    /\ passing_statuses' = Fallback(seen_statuses, failing_statuses, passing_statuses)
    /\ todo' = SortedSeq(DOMAIN documented)
    /\ endpoint_reports' = <<>>
    /\ summary' = ZeroSummary
    /\ pc' = IF DOMAIN documented = {} THEN "main_done" ELSE "classify"
    /\ UNCHANGED <<pos, ignoreVars, junit, failing_ids, har, seen_statuses,
                   case_to_triplet, failing_statuses, documented, classifyVars>>

\* Lines 381-402: one iteration of the loop over sorted(documented.items())
MainClassify ==
    /\ pc = "classify"
    /\ todo # <<>>
    /\ LET e == Head(todo)
           ep == classify_endpoint(e, documented[e], seen_statuses[e],
                                   passing_statuses[e], failing_statuses[e], ignore)
       IN  /\ endpoint_reports' = Append(endpoint_reports, ep)
           /\ summary' = UpdateSummary(summary, ep)
    /\ todo' = Tail(todo)
    /\ pc' = IF Tail(todo) = <<>> THEN "main_done" ELSE "classify"
    /\ UNCHANGED <<pos, ignoreVars, junit, failing_ids, har, seen_statuses,
                   case_to_triplet, failing_statuses, passing_statuses,
                   documented, classifyVars>>

NextMain == MainLoad \/ MainVerdicts \/ MainFallback \/ MainClassify

SpecMain == InitMain /\ [][NextMain]_vars

-----------------------------------------------------------------------------
(* Properties of classify_endpoint, under SpecClassify *)

Classified == pc = "classified"

Extra(r) == r.seen \ r.documented

\* C1: covered_passing, covered_failing and untested are pairwise disjoint
\* and their union is nonignored_docs; nonignored_docs and ignored_docs are
\* disjoint and their union is documented.
C1_Partition ==
    Classified =>
        LET r == cls_result
        IN  /\ r.documented = cls_args.documented
            /\ r.covered_passing \cap r.covered_failing = {}
            /\ r.covered_passing \cap r.untested = {}
            /\ r.covered_failing \cap r.untested = {}
            /\ r.covered_passing \cup r.covered_failing \cup r.untested = r.nonignored_docs
            /\ r.nonignored_docs \cap r.ignored_docs = {}
            /\ r.nonignored_docs \cup r.ignored_docs = r.documented

C1_Witness ==
    /\ Classified
    /\ cls_result.covered_passing # {}
    /\ cls_result.covered_failing # {}
    /\ cls_result.untested # {}
    /\ cls_result.ignored_docs # {}
    /\ cls_args.passing \cap cls_args.failing \cap cls_result.nonignored_docs # {}

\* C2: the color follows the ordered decision procedure: grey without any
\* coverage signal; with a failure signal yellow if something passed and red
\* if not; otherwise green when every non-ignored documented code passed and
\* yellow if not. An endpoint with an undocumented seen code is never green
\* or grey.
C2_Color ==
    Classified =>
        LET r == cls_result
            anyPassing == r.covered_passing # {} \/ r.ignored_passing # {}
            anyFailing == r.covered_failing # {} \/ r.ignored_failing # {} \/ Extra(r) # {}
        IN  /\ r.color =
                 IF ~(anyPassing \/ anyFailing) THEN "grey"
                 ELSE IF anyFailing
                      THEN (IF anyPassing THEN "yellow" ELSE "red")
                      ELSE (IF Cardinality(r.covered_passing) = Cardinality(r.nonignored_docs)
                            THEN "green" ELSE "yellow")
            /\ (cls_args.seen \ cls_args.documented # {} => r.color \in {"yellow", "red"})

\* The "yellow via extra" scenario of the specification
C2_Witness ==
    /\ Classified
    /\ ignore_patterns = DefaultIgnore
    /\ cls_args = [documented |-> {200}, seen |-> {200, 418},
                   passing |-> {200}, failing |-> {}]
    /\ cls_result.extra_nonignored = {418}
    /\ cls_result.covered_passing = {200}
    /\ cls_result.color = "yellow"

\* C5: a documented code that is both passing and failing is in the failing
\* bucket of its ignore class and in neither passing bucket.
C5_FailurePrecedence ==
    Classified =>
        \A c \in cls_args.documented \cap cls_args.passing \cap cls_args.failing :
            /\ c \in cls_result.nonignored_docs => c \in cls_result.covered_failing
            /\ c \in cls_result.ignored_docs => c \in cls_result.ignored_failing
            /\ c \notin cls_result.covered_passing
            /\ c \notin cls_result.ignored_passing

C5_Witness ==
    /\ Classified
    /\ \E c \in cls_args.passing \cap cls_args.failing : c \in cls_result.covered_failing
    /\ \E c \in cls_args.passing \cap cls_args.failing : c \in cls_result.ignored_failing

AllIgnoredWithCoverage ==
    /\ Classified
    /\ cls_result.nonignored_docs = {}
    /\ \/ cls_result.ignored_passing # {}
       \/ cls_result.ignored_failing # {}
       \/ cls_result.extra_nonignored # {}
       \/ cls_result.extra_ignored # {}

\* C7 as stated: with no non-ignored documented code and coverage through
\* the ignored or extra buckets only, the color is green.
C7_AllIgnoredGreen == AllIgnoredWithCoverage => cls_result.color = "green"

\* C7 amended: with no non-ignored documented code, the color is green when
\* the only coverage is ignored_passing (ignored_failing and both extra
\* buckets empty), and yellow or red when ignored_failing or an extra bucket
\* is non-empty.
C7_AllIgnoredPassingGreen ==
    AllIgnoredWithCoverage =>
        IF /\ cls_result.ignored_failing = {}
           /\ cls_result.extra_nonignored = {}
           /\ cls_result.extra_ignored = {}
        THEN cls_result.color = "green"
        ELSE cls_result.color =
                 IF cls_result.ignored_passing # {} THEN "yellow" ELSE "red"

C7_Witness ==
    /\ AllIgnoredWithCoverage
    /\ cls_result.documented # {}
    /\ cls_result.ignored_passing # {}
    /\ cls_result.color = "green"

-----------------------------------------------------------------------------
(* Properties of StatusIgnore, under SpecIgnore *)

\* The atomic tokens of a pattern list: every pattern cut at commas and blanks
RECURSIVE AtomicTokens(_)
AtomicTokens(pats) ==
    IF pats = <<>> THEN {}
    ELSE LET parts == SplitWs(ReplaceChar(Head(pats), ",", " "), <<>>)
         IN  {parts[i] : i \in 1..Len(parts)} \cup AtomicTokens(Tail(pats))

\* The leading digits d with a token dXX
ClassKeys(pats) ==
    {d \in 0..9 : <<DigitChars[d + 1], "X", "X">> \in AtomicTokens(pats)}

Unrecognized == {TokIsh, TokLower}

RECURSIVE WithoutUnrecognized(_)
WithoutUnrecognized(pats) ==
    IF pats = <<>> THEN <<>>
    ELSE (IF Head(pats) \in Unrecognized THEN <<>> ELSE <<Head(pats)>>)
             \o WithoutUnrecognized(Tail(pats))

\* C8: is_ignored(code) is true exactly when code is in the exact-code set
\* or code is in 100..999 and its leading digit is the digit of a token dXX;
\* codes outside 100..999 match no class rule, and the tokens 4XX-ish and
\* 5xx add no rule.
C8_IsIgnored ==
    pc = "ignore_queried" =>
        LET c == query.status
        IN  /\ query.answer =
                 (\/ c \in ignore.codes
                  \/ c \in 100..999 /\ (c \div 100) \in ClassKeys(ignore_patterns))
            /\ ignore = StatusIgnore(WithoutUnrecognized(ignore_patterns))

C8_Witness ==
    /\ pc = "ignore_queried"
    /\ ignore_patterns = <<TokIsh, Tok5XX>>
    /\ query = [status |-> 501, answer |-> TRUE]
    /\ 501 \notin ignore.codes

-----------------------------------------------------------------------------
(* Properties of load_failing_test_ids, under SpecJunit *)

\* The lines of all failure messages, stripped
RECURSIVE ReportLines(_)
ReportLines(msgs) ==
    IF msgs = <<>> THEN {}
    ELSE LET ls == SplitLines(Head(msgs), <<>>)
         IN  {Strip(ls[i]) : i \in 1..Len(ls)} \cup ReportLines(Tail(msgs))

\* C10: failing_ids contains the id of every line "[<index>. ]Test Case ID:
\* <id>" with a non-empty id, whatever the index and also without index.
C10_EveryIndex ==
    pc = "junit_done" =>
        \A k \in 0..MaxIndex : \A id \in JunitIds \cup {IdB} :
            (id # <<>> /\ JunitLine(k, id) \in ReportLines(junit)) => id \in failing_ids

-----------------------------------------------------------------------------
(* Properties of main, under SpecMain *)

Reconciled == pc \in {"classify", "main_done"}

\* C3: an observation that carries a correlation id has its (endpoint,
\* status) in the failing set when the id is a failing id and in the passing
\* set when it is not.
C3_EveryObservation ==
    Reconciled =>
        \A i \in DOMAIN har :
            har[i].id # <<>> =>
                IF har[i].id \in failing_ids
                THEN har[i].status \in failing_statuses[har[i].ep]
                ELSE har[i].status \in passing_statuses[har[i].ep]

\* C4: after reconciliation every observed (endpoint, status) that is not
\* failing is passing; without failing ids every observed status is passing;
\* and such a status, when documented and not ignored, is in covered_passing.
C4_DefaultInnocent ==
    Reconciled =>
        /\ \A i \in DOMAIN har :
              har[i].status \notin failing_statuses[har[i].ep]
                  => har[i].status \in passing_statuses[har[i].ep]
        /\ failing_ids = {} =>
              \A i \in DOMAIN har : har[i].status \in passing_statuses[har[i].ep]
        /\ \A n \in DOMAIN endpoint_reports : \A i \in DOMAIN har :
              LET r == endpoint_reports[n]
              IN  (/\ har[i].ep = r.endpoint
                   /\ har[i].status \notin failing_statuses[har[i].ep]
                   /\ har[i].status \in r.documented
                   /\ har[i].status \notin {429} \cup 500..599)
                      => har[i].status \in r.covered_passing

\* One observation of 200 without id next to judged observations, no failing id
C4_Witness ==
    /\ pc = "main_done"
    /\ failing_ids = {}
    /\ \E i \in DOMAIN har :
          /\ har[i].status = 200
          /\ \A j \in DOMAIN har :
                (har[j].ep = har[i].ep /\ har[j].status = 200) => har[j].id = <<>>
          /\ \E j \in DOMAIN har : har[j].ep = har[i].ep /\ har[j].id # <<>>
          /\ \E n \in DOMAIN endpoint_reports :
                /\ endpoint_reports[n].endpoint = har[i].ep
                /\ 200 \in endpoint_reports[n].covered_passing

\* The observations in another order
Reordered(entries) ==
    {[i \in 1..Len(entries) |-> entries[f[i]]] : f \in Permutations(1..Len(entries))}

\* C6: every order of the same observations gives the same passing and
\* failing sets.
C6_OrderIndependent ==
    Reconciled =>
        \A p \in Reordered(har) :
            Reconcile(p, failing_ids) =
                [failing |-> failing_statuses, passing |-> passing_statuses]

RECURSIVE SumCard(_, _)
SumCard(reports, field) ==
    IF reports = <<>> THEN 0
    ELSE Cardinality(Head(reports)[field]) + SumCard(Tail(reports), field)

RECURSIVE SumExtra(_)
SumExtra(reports) ==
    IF reports = <<>> THEN 0
    ELSE Cardinality(Extra(Head(reports))) + SumExtra(Tail(reports))

\* C9: the totals are the sums over the records of |nonignored_docs|,
\* |covered_passing|, |covered_failing|, |untested| and of the number of
\* undocumented seen codes; no undocumented code is counted as passing or
\* failing; at the end there is one record per documented endpoint.
C9_Totals ==
    /\ summary.total_doc = SumCard(endpoint_reports, "nonignored_docs")
    /\ summary.total_pass = SumCard(endpoint_reports, "covered_passing")
    /\ summary.total_fail = SumCard(endpoint_reports, "covered_failing")
    /\ summary.total_untested = SumCard(endpoint_reports, "untested")
    /\ summary.extra_total = SumExtra(endpoint_reports)
    /\ summary.total_pass + summary.total_fail + summary.total_untested = summary.total_doc
    /\ \A n \in DOMAIN endpoint_reports :
          LET r == endpoint_reports[n]
          IN  /\ Extra(r) \cap (r.covered_passing \cup r.covered_failing) = {}
              /\ r.extra_nonignored \cup r.extra_ignored = Extra(r)
              /\ r.extra_nonignored \cap r.extra_ignored = {}
    /\ pc = "main_done" =>
          /\ Len(endpoint_reports) = Cardinality(DOMAIN documented)
          /\ {endpoint_reports[n].endpoint : n \in DOMAIN endpoint_reports} = DOMAIN documented

C9_Witness ==
    /\ pc = "main_done"
    /\ Len(endpoint_reports) = 2
    /\ summary.total_pass > 0
    /\ summary.total_fail > 0
    /\ summary.total_untested > 0
    /\ summary.extra_total > 0

====
